---------------------------- MODULE Spec2Model ----------------------------
(***************************************************************************)
(* Wishing Well backend: the topic store (wishes, topics, topic_wishes,    *)
(* model_updates, rejected_wishes), the batch pipeline                     *)
(* process_unassigned_wishes, the admin operations trigger_training and    *)
(* reset_stuck_training, wish submission / soft delete, and the global     *)
(* scheduler handle.                                                       *)
(*                                                                         *)
(* The store variables hold COMMITTED rows only.  Rows a session has       *)
(* added or flushed but not committed live in that execution's entry of    *)
(* `exec` and become visible to the others in the step that commits them.  *)
(* Every step of an execution is one database statement or commit (a read  *)
(* of the committed store, or one atomic write of it), so any interleaving *)
(* of the request threads, the background tasks and the scheduler's job    *)
(* thread is a behaviour of Spec.                                          *)
(***************************************************************************)
EXTENDS Integers, Sequences, FiniteSets, TLC

\* ---------------------------------------------------------------- bounds
MaxWishes == 2
MaxRuns == 3
MaxLabel == 0

\* settings.HDBSCAN_MIN_CLUSTER_SIZE (config.py), scaled to the model
MinClusterSize == 2

\* the scheduler's job thread, and the request threads serving
\* POST /admin/model/train together with their background task
Sched == "sched"
Manual == {"m1"}
Procs == {Sched} \cup Manual

Contents == {"peace"}
\* cluster labels train_model can return; -1 is the outlier sentinel
Outlier == -1
Labels == Outlier .. MaxLabel
NULL == 0

VARIABLES
    wishes,         \* table wishes: Seq of [content, topic_id, is_deleted]; id = index
    topics,         \* table topics: set of [id, name, wish_count, topic_model_id]
    topic_wishes,   \* table topic_wishes: set of [topic_id, wish_id, is_primary]
    model_updates,  \* table model_updates: Seq of rows; id = index
    rejected_wishes,\* table rejected_wishes: Seq of [content, rejection_reason]
    topicSeq,       \* last value handed out by the topics.id sequence
    scheduler,      \* the global scheduler: the state of the instance it
                    \* refers to ("none", "running", "stopped"), the job ids
                    \* of that instance, and the number of instances running
    enableScheduler,\* settings.ENABLE_SCHEDULER
    exec            \* per thread: position and locals of its handler / pipeline run

vars == <<wishes, topics, topic_wishes, model_updates, rejected_wishes,
          topicSeq, scheduler, enableScheduler, exec>>

\* the committed store
store == <<wishes, topics, topic_wishes, model_updates, rejected_wishes>>

\* ---------------------------------------------------------------- helpers
Range(s) == {s[i] : i \in DOMAIN s}

\* Wish.topic_id IS NULL AND Wish.is_deleted == False
Eligible(w) == w.topic_id = NULL /\ ~w.is_deleted

EligibleIds == {i \in DOMAIN wishes : Eligible(wishes[i])}

\* a set of wish ids as the list a query returns (ascending id)
RECURSIVE SetToSeq(_)
SetToSeq(S) ==
    IF S = {} THEN << >>
    ELSE LET m == CHOOSE x \in S : \A y \in S : x <= y
         IN <<m>> \o SetToSeq(S \ {m})

\* db.query(ModelUpdate).filter(status == "running")
RunningRuns == {i \in DOMAIN model_updates : model_updates[i].status = "running"}

\* trigger_training: "if running_training:" after
\* db.query(ModelUpdate).filter(status == "running").first();
\* the variant looks at the most recent run only
RunningTrainingLatestOnly ==
    /\ model_updates # << >>
    /\ model_updates[Len(model_updates)].status = "running"

RunningTraining == RunningRuns # {}

\* "< settings.HDBSCAN_MIN_CLUSTER_SIZE"; the variant is off by one
TooFewOffByOne(n) == n < MinClusterSize - 1

TooFew(n) == n < MinClusterSize

\* _get_next_version: last version + 1, or 1
NextVersion ==
    IF model_updates = << >> THEN 1
    ELSE LET top == CHOOSE i \in DOMAIN model_updates :
                        \A j \in DOMAIN model_updates :
                            model_updates[j].version <= model_updates[i].version
         IN model_updates[top].version + 1

\* ModelUpdate(version, status="running", wishes_count, topics_created)
NewModelUpdate(version, wishes_count, topics_created) ==
    [version |-> version, status |-> "running", wishes_count |-> wishes_count,
     topics_created |-> topics_created, completed_at |-> FALSE]

\* no generate_topic_label call was made yet
NoCall ==
    [called |-> FALSE, topic_id |-> 0, top_words |-> << >>, sample_docs |-> << >>]

\* the locals of a thread that is not inside a handler; label_call holds the
\* arguments of the latest generate_topic_label call of the execution
IdleExec ==
    [pc |-> "idle", db |-> "closed", unassigned_count |-> 0, next_version |-> 0,
     returned |-> 0, wish_ids |-> << >>, documents |-> << >>, labels |-> << >>,
     todo |-> {}, model_update |-> 0, new_topics |-> {}, new_topic_wishes |-> {},
     label_call |-> NoCall]

\* the variant of the outer except clause that raises again after logging:
\* the exception leaves process_unassigned_wishes
OuterExceptReraises == [IdleExec EXCEPT !.pc = "escaped"]

\* "except Exception as e: logger.error(...)" and "finally: db.close()" of
\* process_unassigned_wishes: the call returns, its session closed
OuterExcept == IdleExec

Set(p, r) == exec' = [exec EXCEPT ![p] = r]

\* model_updates rows the handler or pipeline run of p may still insert; a new
\* request or job is taken up only while MaxRuns leaves room for its rows
Reserved(p) ==
    CASE exec[p].pc \in {"t_count", "t_insert"} -> 2
      [] exec[p].pc \in {"fetch", "train", "insert"} -> 1
      [] OTHER -> 0

RECURSIVE SumReserved(_)
SumReserved(P) ==
    IF P = {} THEN 0
    ELSE LET p == CHOOSE q \in P : TRUE IN Reserved(p) + SumReserved(P \ {p})

Room == MaxRuns - Len(model_updates) - SumReserved(Procs)

\* ---------------------------------------------------------------- Init
Init ==
    /\ wishes = << >>
    /\ topics = {}
    /\ topic_wishes = {}
    /\ model_updates = << >>
    /\ rejected_wishes = << >>
    /\ topicSeq = 0
    /\ scheduler = [handle |-> "none", live |-> 0, jobs |-> << >>]
    /\ enableScheduler \in BOOLEAN
    /\ exec = [p \in Procs |-> IdleExec]

\* ---------------------------------------------------------------- wishes
\* what client.moderations.create can do for a text
ModerationCalls == {"clean", "flagged", "raises"}

\* the variant of moderate_content that accepts when the call raises
moderate_content_fails_open(call) ==
    CASE call = "clean"   -> [is_safe |-> TRUE, reason |-> "none"]
      [] call = "flagged" -> [is_safe |-> FALSE, reason |-> "Content flagged for"]
      [] call = "raises"  -> [is_safe |-> TRUE, reason |-> "none"]

\* moderate_content: (is_safe, rejection_reason)
moderate_content(call) ==
    CASE call = "clean"   -> [is_safe |-> TRUE, reason |-> "none"]
      [] call = "flagged" -> [is_safe |-> FALSE, reason |-> "Content flagged for"]
      [] call = "raises"  -> [is_safe |-> FALSE, reason |-> "Moderation service error"]

\* should_reject_wish
should_reject_wish(call) == moderate_content(call)

\* create_wish: what the caller gets, HTTPException(400) with the reason or
\* the 201 answer
create_wish_response(m) ==
    IF ~m.is_safe
    THEN [status_code |-> 400, detail |-> m.reason]
    ELSE [status_code |-> 201, detail |-> "none"]

\* the variant of create_wish that stores the wish it has logged as rejected
create_wish_keeps_rejected ==
    \E c \in Contents, call \in ModerationCalls :
        LET m == should_reject_wish(call) IN
        /\ Len(wishes) + Len(rejected_wishes) < MaxWishes
        /\ IF ~m.is_safe
           THEN rejected_wishes' = Append(rejected_wishes,
                    [content |-> c, rejection_reason |-> m.reason])
           ELSE UNCHANGED rejected_wishes
        /\ wishes' = Append(wishes,
                    [content |-> c, topic_id |-> NULL, is_deleted |-> FALSE])
        /\ UNCHANGED <<topics, topic_wishes, model_updates,
                       topicSeq, scheduler, enableScheduler, exec>>

\* the variant of delete_wish that also takes the wish out of its topic
delete_wish_unassigns ==
    /\ \E i \in DOMAIN wishes :
        wishes' = [wishes EXCEPT ![i].is_deleted = TRUE, ![i].topic_id = NULL]
    /\ UNCHANGED <<topics, topic_wishes, model_updates, rejected_wishes,
                   topicSeq, scheduler, enableScheduler, exec>>

\* the variant of Wish whose row starts as deleted
WishDeletedByDefault(content) ==
    [content |-> content, topic_id |-> NULL, is_deleted |-> TRUE]

\* Wish(content = ...): topic_id has no default (NULL), is_deleted defaults
\* to False
Wish(content) ==
    [content |-> content, topic_id |-> NULL, is_deleted |-> FALSE]

\* POST /wishes, while fewer than max submissions are on record
CreateWish(max) ==
    \E c \in Contents, call \in ModerationCalls :
        LET m == should_reject_wish(call) IN
        IF ~m.is_safe
        THEN /\ Len(wishes) + Len(rejected_wishes) < max
             /\ rejected_wishes' = Append(rejected_wishes,
                    [content |-> c, rejection_reason |-> m.reason])
             /\ UNCHANGED <<wishes, topics, topic_wishes, model_updates,
                            topicSeq, scheduler, enableScheduler, exec>>
        ELSE /\ Len(wishes) + Len(rejected_wishes) < max
             /\ wishes' = Append(wishes, Wish(c))
             /\ UNCHANGED <<topics, topic_wishes, model_updates, rejected_wishes,
                            topicSeq, scheduler, enableScheduler, exec>>

\* POST /wishes
create_wish == CreateWish(MaxWishes)

\* DELETE /wishes/{wish_id}
delete_wish ==
    /\ \E i \in DOMAIN wishes :
        wishes' = [wishes EXCEPT ![i].is_deleted = TRUE]
    /\ UNCHANGED <<topics, topic_wishes, model_updates, rejected_wishes,
                   topicSeq, scheduler, enableScheduler, exec>>

\* ---------------------------------------------------------------- scheduler
\* scheduler.add_job(..., id = job_id, replace_existing = True)
add_job(jobs, job_id) ==
    IF \E i \in DOMAIN jobs : jobs[i] = job_id THEN jobs ELSE Append(jobs, job_id)

\* scheduler = BackgroundScheduler(); add_job; scheduler.start(): the global
\* refers to a new running instance, whatever it referred to before
StartNew ==
    [handle |-> "running", live |-> scheduler.live + 1,
     jobs |-> add_job(<< >>, "batch_update")]

\* the variant of start_scheduler that does not look for a running scheduler
start_scheduler_unguarded ==
    /\ IF ~enableScheduler
       THEN UNCHANGED scheduler
       ELSE scheduler' = StartNew
    /\ UNCHANGED <<wishes, topics, topic_wishes, model_updates, rejected_wishes,
                   topicSeq, enableScheduler, exec>>

\* start_scheduler
start_scheduler ==
    /\ IF ~enableScheduler
       THEN UNCHANGED scheduler
       ELSE IF scheduler.handle = "running"
            THEN UNCHANGED scheduler
            ELSE scheduler' = StartNew
    /\ UNCHANGED <<wishes, topics, topic_wishes, model_updates, rejected_wishes,
                   topicSeq, enableScheduler, exec>>

\* scheduler.shutdown(): the instance the global refers to stops running
Shutdown ==
    [scheduler EXCEPT !.handle = "stopped",
                      !.live = IF @ > 0 THEN @ - 1 ELSE 0]

\* the variant of stop_scheduler that shuts down without looking
stop_scheduler_unguarded ==
    /\ scheduler' = Shutdown
    /\ UNCHANGED <<wishes, topics, topic_wishes, model_updates, rejected_wishes,
                   topicSeq, enableScheduler, exec>>

\* stop_scheduler
stop_scheduler ==
    /\ IF scheduler.handle = "running"
       THEN scheduler' = Shutdown
       ELSE UNCHANGED scheduler
    /\ UNCHANGED <<wishes, topics, topic_wishes, model_updates, rejected_wishes,
                   topicSeq, enableScheduler, exec>>

\* the interval trigger fires the job "batch_update" (one instance at a time)
SchedulerFires ==
    /\ scheduler.handle = "running"
    /\ exec[Sched].pc = "idle"
    /\ Room >= 1
    /\ Set(Sched, [IdleExec EXCEPT !.pc = "fetch", !.db = "open"])
    /\ UNCHANGED <<wishes, topics, topic_wishes, model_updates, rejected_wishes,
                   topicSeq, scheduler, enableScheduler>>

\* ---------------------------------------------------------------- admin
\* trigger_training, first query: is a training run in progress?
TriggerCheck(p) ==
    /\ exec[p].pc = "idle"
    /\ RunningRuns # {} \/ Room >= 2
    /\ IF RunningTraining
       THEN Set(p, [IdleExec EXCEPT !.pc = "conflict"])
       ELSE Set(p, [IdleExec EXCEPT !.pc = "t_count"])
    /\ UNCHANGED <<wishes, topics, topic_wishes, model_updates, rejected_wishes,
                   topicSeq, scheduler, enableScheduler>>

\* trigger_training, second query: count of unassigned wishes; then
\* _get_next_version
TriggerCount(p) ==
    /\ exec[p].pc = "t_count"
    /\ LET unassigned_count == Cardinality(EligibleIds) IN
       IF TooFew(unassigned_count)
       THEN Set(p, [IdleExec EXCEPT !.pc = "insufficient"])
       ELSE Set(p, [exec[p] EXCEPT !.pc = "t_insert",
                                   !.unassigned_count = unassigned_count,
                                   !.next_version = NextVersion])
    /\ UNCHANGED <<wishes, topics, topic_wishes, model_updates, rejected_wishes,
                   topicSeq, scheduler, enableScheduler>>

\* trigger_training: db.add(model_update); db.commit();
\* background_tasks.add_task(trigger_manual_update); return model_update
TriggerInsert(p) ==
    /\ exec[p].pc = "t_insert"
    /\ model_updates' = Append(model_updates,
            NewModelUpdate(exec[p].next_version, exec[p].unassigned_count, 0))
    /\ Set(p, [IdleExec EXCEPT !.pc = "fetch", !.db = "open",
                               !.returned = Len(model_updates) + 1])
    /\ UNCHANGED <<wishes, topics, topic_wishes, rejected_wishes,
                   topicSeq, scheduler, enableScheduler>>

\* reset_stuck_training, the variant without the status filter
reset_every_training ==
    /\ model_updates' = [i \in DOMAIN model_updates |->
            [model_updates[i] EXCEPT !.status = "failed"]]
    /\ UNCHANGED <<wishes, topics, topic_wishes, rejected_wishes,
                   topicSeq, scheduler, enableScheduler, exec>>

\* the variant of the answer that counts every run
ResetResponseAllRuns ==
    IF RunningRuns = {}
    THEN [message |-> "No stuck training runs found"]
    ELSE [message |-> "Reset", reset_count |-> Len(model_updates)]

\* reset_stuck_training: what it returns when called in this state; without
\* a 'running' row the answer has no reset_count
ResetResponse ==
    IF RunningRuns = {}
    THEN [message |-> "No stuck training runs found"]
    ELSE [message |-> "Reset", reset_count |-> Cardinality(RunningRuns)]

\* reset_stuck_training
reset_stuck_training ==
    /\ model_updates' = [i \in DOMAIN model_updates |->
            IF model_updates[i].status = "running"
            THEN [model_updates[i] EXCEPT !.status = "failed"]
            ELSE model_updates[i]]
    /\ UNCHANGED <<wishes, topics, topic_wishes, rejected_wishes,
                   topicSeq, scheduler, enableScheduler, exec>>

\* the variant of topic_indices that puts the outliers in every cluster
TopicIndicesWithOutliers(labels, t) ==
    {i \in DOMAIN labels : labels[i] = t \/ labels[i] = Outlier}

\* ---------------------------------------------------------------- pipeline
\* the documents train_model put in cluster t: indices into wish_ids
TopicIndices(labels, t) == {i \in DOMAIN labels : labels[i] = t}

\* the variant of unique_topics that keeps the outlier label
UniqueTopicsWithOutlier(labels) == {labels[i] : i \in DOMAIN labels}

\* the variant of the wish update that leaves topic_id alone
KeepTopicIds(ws, A) == ws

\* unique_topics = set([t for t in topics if t != -1])
UniqueTopics(labels) == {labels[i] : i \in DOMAIN labels} \ {Outlier}

\* the variant of wish_count that counts every document: len(documents)
WishCountAllDocuments(labels, t) == Len(labels)

\* Topic.wish_count = len(topic_indices)
WishCount(labels, t) == Cardinality(TopicIndices(labels, t))

\* the number of keywords asked of get_topic_words (top_n_words = 10, scaled)
TopNWords == 2

\* the number of sample documents of a cluster (topic_indices[:5], scaled)
SampleDocsCap == 2

\* the python slice s[:n]
Take(s, n) == SubSeq(s, 1, IF n < Len(s) THEN n ELSE Len(s))

\* documents = [wish.content for wish in unassigned_wishes]
Documents(unassigned_wishes) ==
    [i \in DOMAIN unassigned_wishes |-> wishes[unassigned_wishes[i]].content]

\* the keywords of BERTopic's answers, and what topic_model.get_topic can
\* return for a cluster: no keyword, or up to one more than is asked for
Words == {"wish"}

TopicInfos == UNION {[1..n -> Words] : n \in 0..(TopNWords + 1)}

\* one answer of topic_model.get_topic
OneTopicInfo == {<<"wish">>}

\* get_topic_words: no keyword for the outlier topic or an empty answer,
\* else the first top_n_words keywords
get_topic_words(topic_info, topic_id, top_n_words) ==
    IF topic_id = Outlier THEN << >>
    ELSE IF topic_info = << >> THEN << >>
    ELSE Take(topic_info, top_n_words)

\* the variant of sample_docs that takes the first documents of the fetch,
\* whatever their cluster: documents[:5]
SampleDocsOfAnyCluster(documents, labels, t) == Take(documents, SampleDocsCap)

\* topic_indices = [i for i, t in enumerate(topics) if t == topic_id];
\* sample_docs = [documents[i] for i in topic_indices[:5]]
SampleDocs(documents, labels, t) ==
    LET topic_indices == SetToSeq(TopicIndices(labels, t))
        first == Take(topic_indices, SampleDocsCap)
    IN [k \in DOMAIN first |-> documents[first[k]]]

\* what client.chat.completions.create can do for a cluster: answer a JSON
\* object with a name, raise, answer text that json.loads refuses, or answer
\* a JSON object without "name" and "description"
LabelAnswers == {"answers", "raises", "not_json", "no_name"}

\* the two kinds of outcome: the call answers, the call fails
LabelCalls == {"answers", "raises"}

\* the variant of generate_topic_label without the except clause: the
\* exception leaves the function
generate_topic_label_raises(call) ==
    CASE call = "answers" -> "generated"
      [] call = "no_name" -> "Unknown Topic"
      [] OTHER -> "raised"

\* generate_topic_label: the name of the label; "fallback" is
\* "Topic: " + the first three keywords
generate_topic_label(call) ==
    CASE call = "answers" -> "generated"
      [] call = "no_name" -> "Unknown Topic"
      [] OTHER -> "fallback"

\* process_unassigned_wishes: query the unassigned wishes; return when fewer
\* than HDBSCAN_MIN_CLUSTER_SIZE
Fetch(p) ==
    /\ exec[p].pc = "fetch"
    /\ LET unassigned_wishes == SetToSeq(EligibleIds) IN
       IF TooFew(Len(unassigned_wishes))
       THEN Set(p, [IdleExec EXCEPT !.pc = "declined"])
       ELSE Set(p, [exec[p] EXCEPT !.pc = "train", !.wish_ids = unassigned_wishes,
                                   !.documents = Documents(unassigned_wishes)])
    /\ UNCHANGED <<wishes, topics, topic_wishes, model_updates, rejected_wishes,
                   topicSeq, scheduler, enableScheduler>>

\* the query raises: caught by the outer except, which only logs
FetchRaises(p) ==
    /\ exec[p].pc = "fetch"
    /\ Set(p, OuterExcept)
    /\ UNCHANGED <<wishes, topics, topic_wishes, model_updates, rejected_wishes,
                   topicSeq, scheduler, enableScheduler>>

\* train_model(documents) returns a label per document; then the version
\* for the ModelUpdate row is read
Train(p) ==
    /\ exec[p].pc = "train"
    /\ \E labels \in [DOMAIN exec[p].wish_ids -> Labels] :
        Set(p, [exec[p] EXCEPT !.pc = "insert", !.labels = labels,
                               !.next_version = NextVersion])
    /\ UNCHANGED <<wishes, topics, topic_wishes, model_updates, rejected_wishes,
                   topicSeq, scheduler, enableScheduler>>

\* train_model raises: caught by the outer except, which only logs
TrainRaises(p) ==
    /\ exec[p].pc = "train"
    /\ Set(p, OuterExcept)
    /\ UNCHANGED <<wishes, topics, topic_wishes, model_updates, rejected_wishes,
                   topicSeq, scheduler, enableScheduler>>

\* db.add(model_update); db.commit()
InsertRun(p) ==
    /\ exec[p].pc = "insert"
    /\ model_updates' = Append(model_updates,
            NewModelUpdate(exec[p].next_version, Len(exec[p].wish_ids),
                           Cardinality(UniqueTopics(exec[p].labels))))
    /\ Set(p, [exec[p] EXCEPT !.pc = "loop", !.next_version = 0,
                              !.model_update = Len(model_updates) + 1,
                              !.todo = UniqueTopics(exec[p].labels)])
    /\ UNCHANGED <<wishes, topics, topic_wishes, rejected_wishes,
                   topicSeq, scheduler, enableScheduler>>

\* the commit of the ModelUpdate row raises, before the inner try: caught by
\* the outer except, no row is stored
InsertRunRaises(p) ==
    /\ exec[p].pc = "insert"
    /\ Set(p, OuterExcept)
    /\ UNCHANGED <<wishes, topics, topic_wishes, model_updates, rejected_wishes,
                   topicSeq, scheduler, enableScheduler>>

\* one iteration of "for topic_id in unique_topics": label, Topic row,
\* flush, and for each document of the cluster wish.topic_id and a TopicWish
\* row; all of it pending in the session
ProcessTopicWith(p, calls, infos) ==
    /\ exec[p].pc = "loop"
    /\ \E t \in exec[p].todo, call \in calls, topic_info \in infos :
        LET e == exec[p]
            top_words == get_topic_words(topic_info, t, TopNWords)
            sample_docs == SampleDocs(e.documents, e.labels, t)
            id == topicSeq + 1
            topic == [id |-> id, name |-> generate_topic_label(call),
                      wish_count |-> WishCount(e.labels, t),
                      topic_model_id |-> e.model_update]
            assoc == {[topic_id |-> id, wish_id |-> e.wish_ids[i], is_primary |-> TRUE] :
                        i \in TopicIndices(e.labels, t)}
        IN Set(p, [e EXCEPT !.todo = @ \ {t},
                            !.new_topics = @ \cup {topic},
                            !.new_topic_wishes = @ \cup assoc,
                            !.label_call = [called |-> TRUE, topic_id |-> t,
                                            top_words |-> top_words,
                                            sample_docs |-> sample_docs]])
    /\ topicSeq' = topicSeq + 1
    /\ UNCHANGED <<wishes, topics, topic_wishes, model_updates, rejected_wishes,
                   scheduler, enableScheduler>>

ProcessTopic(p) == ProcessTopicWith(p, LabelCalls, OneTopicInfo)

\* an iteration raises (get_topic_words, the flush, the probability lookup):
\* db.rollback() drops what is pending
LoopRaises(p) ==
    /\ exec[p].pc = "loop"
    /\ exec[p].todo # {}
    /\ Set(p, [exec[p] EXCEPT !.pc = "handler", !.todo = {}, !.labels = << >>,
                              !.new_topics = {}, !.new_topic_wishes = {},
                              !.label_call = NoCall])
    /\ UNCHANGED <<wishes, topics, topic_wishes, model_updates, rejected_wishes,
                   topicSeq, scheduler, enableScheduler>>

\* wish.topic_id = topic.id, for the pending associations A
ApplyTopicIds(ws, A) ==
    [i \in DOMAIN ws |->
        IF \E a \in A : a.wish_id = i
        THEN [ws[i] EXCEPT !.topic_id =
                (CHOOSE a \in A : a.wish_id = i).topic_id]
        ELSE ws[i]]

\* "Commit all changes": topics, associations and wish.topic_id become visible
CommitTopics(p) ==
    /\ exec[p].pc = "loop"
    /\ exec[p].todo = {}
    /\ topics' = topics \cup exec[p].new_topics
    /\ topic_wishes' = topic_wishes \cup exec[p].new_topic_wishes
    /\ wishes' = ApplyTopicIds(wishes, exec[p].new_topic_wishes)
    /\ Set(p, [exec[p] EXCEPT !.pc = "finalize",
                              !.new_topics = {}, !.new_topic_wishes = {}])
    /\ UNCHANGED <<model_updates, rejected_wishes, topicSeq, scheduler, enableScheduler>>

\* that commit raises: db.rollback()
CommitTopicsRaises(p) ==
    /\ exec[p].pc = "loop"
    /\ exec[p].todo = {}
    /\ Set(p, [exec[p] EXCEPT !.pc = "handler", !.labels = << >>,
                              !.new_topics = {}, !.new_topic_wishes = {},
                              !.label_call = NoCall])
    /\ UNCHANGED <<wishes, topics, topic_wishes, model_updates, rejected_wishes,
                   topicSeq, scheduler, enableScheduler>>

\* model_update.status = "completed"; completed_at = now; db.commit()
Finalize(p) ==
    /\ exec[p].pc = "finalize"
    /\ model_updates' = [model_updates EXCEPT ![exec[p].model_update] =
            [@ EXCEPT !.status = "completed", !.completed_at = TRUE]]
    /\ Set(p, IdleExec)
    /\ UNCHANGED <<wishes, topics, topic_wishes, rejected_wishes,
                   topicSeq, scheduler, enableScheduler>>

\* the status commit raises: db.rollback()
FinalizeRaises(p) ==
    /\ exec[p].pc = "finalize"
    /\ Set(p, [exec[p] EXCEPT !.pc = "handler"])
    /\ UNCHANGED <<wishes, topics, topic_wishes, model_updates, rejected_wishes,
                   topicSeq, scheduler, enableScheduler>>

\* except: model_update.status = "failed"; db.commit(); raise (logged outside)
Handler(p) ==
    /\ exec[p].pc = "handler"
    /\ model_updates' = [model_updates EXCEPT ![exec[p].model_update] =
            [@ EXCEPT !.status = "failed"]]
    /\ Set(p, OuterExcept)
    /\ UNCHANGED <<wishes, topics, topic_wishes, rejected_wishes,
                   topicSeq, scheduler, enableScheduler>>

\* the handler's own commit raises: the outer except logs it
HandlerRaises(p) ==
    /\ exec[p].pc = "handler"
    /\ Set(p, OuterExcept)
    /\ UNCHANGED <<wishes, topics, topic_wishes, model_updates, rejected_wishes,
                   topicSeq, scheduler, enableScheduler>>

\* trigger_training has answered 409 / 400, or process_unassigned_wishes has
\* found too few wishes: the thread returns
Ended == {"conflict", "insufficient", "declined"}

Return(p) ==
    /\ exec[p].pc \in Ended
    /\ Set(p, IdleExec)
    /\ UNCHANGED <<wishes, topics, topic_wishes, model_updates, rejected_wishes,
                   topicSeq, scheduler, enableScheduler>>

\* ---------------------------------------------------------------- Next
Pipeline(p) ==
    \/ Fetch(p) \/ FetchRaises(p) \/ Train(p) \/ TrainRaises(p)
    \/ InsertRun(p) \/ InsertRunRaises(p)
    \/ ProcessTopic(p) \/ LoopRaises(p)
    \/ CommitTopics(p) \/ CommitTopicsRaises(p)
    \/ Finalize(p) \/ FinalizeRaises(p)
    \/ Handler(p) \/ HandlerRaises(p)
    \/ Return(p)

Trigger(p) == TriggerCheck(p) \/ TriggerCount(p) \/ TriggerInsert(p)

Next ==
    \/ create_wish
    \/ delete_wish
    \/ start_scheduler
    \/ stop_scheduler
    \/ SchedulerFires
    \/ reset_stuck_training
    \/ \E p \in Manual : Trigger(p)
    \/ \E p \in Procs : Pipeline(p)

Spec == Init /\ [][Next]_vars

\* ------------------------------------------------- the manual trigger alone
\* POST /admin/model/train and its background task with the scheduler off,
\* one more submission than MaxWishes, and every answer of the label call
ManualMaxWishes == MaxWishes + 1

submit_wish == CreateWish(ManualMaxWishes)

LabelTopic(p) == ProcessTopicWith(p, LabelAnswers, OneTopicInfo)

ManualPipeline(p) ==
    \/ Fetch(p) \/ FetchRaises(p) \/ Train(p) \/ TrainRaises(p)
    \/ InsertRun(p) \/ InsertRunRaises(p)
    \/ LabelTopic(p) \/ LoopRaises(p)
    \/ CommitTopics(p) \/ CommitTopicsRaises(p)
    \/ Finalize(p) \/ FinalizeRaises(p)
    \/ Handler(p) \/ HandlerRaises(p)
    \/ Return(p)

ManualNext ==
    \/ submit_wish
    \/ delete_wish
    \/ reset_stuck_training
    \/ \E p \in Manual : Trigger(p)
    \/ \E p \in Manual : ManualPipeline(p)

ManualSpec == Init /\ [][ManualNext]_vars

\* ---------------------------------------------------------------- labels
\* the scheduled job over a database that already holds wishes of different
\* contents (the first one "peace", the others any), with every answer
\* topic_model.get_topic can give
LabelWishes == MaxWishes + 2

LabelContents == {"peace", "health"}

LabelInit ==
    /\ wishes \in {w \in [1..LabelWishes -> {Wish(c) : c \in LabelContents}] :
                        w[1].content = "peace"}
    /\ topics = {}
    /\ topic_wishes = {}
    /\ model_updates = << >>
    /\ rejected_wishes = << >>
    /\ topicSeq = 0
    /\ scheduler = [handle |-> "none", live |-> 0, jobs |-> << >>]
    /\ enableScheduler = TRUE
    /\ exec = [p \in Procs |-> IdleExec]

LabelCluster(p) == ProcessTopicWith(p, LabelCalls, TopicInfos)

LabelPipeline(p) ==
    \/ Fetch(p) \/ FetchRaises(p) \/ Train(p) \/ TrainRaises(p)
    \/ InsertRun(p) \/ InsertRunRaises(p)
    \/ LabelCluster(p) \/ LoopRaises(p)
    \/ CommitTopics(p) \/ CommitTopicsRaises(p)
    \/ Finalize(p) \/ FinalizeRaises(p)
    \/ Handler(p) \/ HandlerRaises(p)
    \/ Return(p)

LabelNext ==
    \/ start_scheduler
    \/ SchedulerFires
    \/ LabelPipeline(Sched)

LabelSpec == LabelInit /\ [][LabelNext]_vars


\* ---------------------------------------------------------------- properties
\* between the fetch of the eligible wishes and the final commit
InPipeline == {"train", "insert", "loop", "finalize", "handler"}

\* the model_updates rows of the execution of p: the one trigger_training
\* returned, and the one process_unassigned_wishes inserted
ExecRows(p) == {exec[p].returned, exec[p].model_update} \ {0}

Started(p) == exec'[p] # exec[p]

\* C1: in every committed state at most one model_updates row is 'running'
C1_AtMostOneRunning == Cardinality(RunningRuns) <= 1

\* C2: no two executions of process_unassigned_wishes are at the same time
\* between their fetch and their final commit
C2_PipelineMutex ==
    Cardinality({p \in Procs : exec[p].pc \in InPipeline}) <= 1

\* C3: while a 'running' row is committed, an execution of
\* process_unassigned_wishes that starts does not go on to cluster: it ends
\* without a row, a topic or an assignment
C3_RefusesWhileRunning ==
    [][\A p \in Procs :
        (exec[p].pc = "fetch" /\ RunningRuns # {})
            => exec'[p].pc \in {"fetch", "declined", "idle"}]_vars

\* C4: trigger_training called while a row is 'running' answers 409, changes
\* nothing in the store and schedules no background task
C4_ConflictNoChange ==
    [][\A p \in Manual :
        /\ (exec[p].pc = "idle" /\ Started(p) /\ RunningRuns # {})
              => /\ exec'[p].pc = "conflict"
                 /\ store' = store
                 /\ topicSeq' = topicSeq
        /\ exec[p].pc = "conflict" => exec'[p].pc \in {"conflict", "idle"}]_vars

C4_Witness ==
    \E p \in Manual : exec[p].pc = "conflict" /\ RunningRuns # {}

\* C5: with fewer eligible wishes than the minimum cluster size, both
\* trigger_training (400) and process_unassigned_wishes (return) decline and
\* change nothing in the store
C5_TooFewDeclines ==
    [][\A p \in Procs :
        /\ (exec[p].pc = "t_count" /\ Started(p)
                /\ Cardinality(EligibleIds) < MinClusterSize)
              => exec'[p].pc = "insufficient" /\ store' = store /\ topicSeq' = topicSeq
        /\ (exec[p].pc = "fetch" /\ Started(p)
                /\ Cardinality(EligibleIds) < MinClusterSize)
              => /\ exec'[p].pc \in {"declined", "idle"}
                 /\ store' = store /\ topicSeq' = topicSeq
        /\ exec[p].pc \in {"insufficient", "declined"}
              => exec'[p].pc \in {exec[p].pc, "idle"}]_vars

C5_Witness ==
    /\ Cardinality(EligibleIds) < MinClusterSize
    /\ wishes # << >>
    /\ \E p \in Manual : exec[p].pc = "insufficient"
    /\ exec[Sched].pc = "declined"

\* C6: when an execution settles its run to 'failed', no topic of that run is
\* in the committed store (hence none of its assignments) and every wish it
\* fetched still has topic_id null
C6_FailureAtomic ==
    [][\A p \in Procs :
        (/\ exec[p].pc = "handler"
         /\ exec'[p].pc = "idle"
         /\ model_updates'[exec[p].model_update].status = "failed")
            => /\ \A t \in topics' : t.topic_model_id # exec[p].model_update
               /\ \A a \in topic_wishes' :
                    \A t \in topics' :
                        t.id = a.topic_id => t.topic_model_id # exec[p].model_update
               /\ \A i \in Range(exec[p].wish_ids) : wishes'[i].topic_id = NULL]_vars

\* C7: an execution that ends by an exception raised after admission has
\* left a row of its own committed as 'failed'
C7_ExceptionMarksFailed ==
    [][\A p \in Procs :
        (exec[p].pc \in {"train", "handler"} /\ exec'[p].pc = "idle")
            => \E r \in ExecRows(p) : model_updates'[r].status = "failed"]_vars

\* C8: from the start of clustering to the end of persistence, a committed
\* 'running' row of the execution is in the store
C8_RunningRowBeforeClustering ==
    \A p \in Procs :
        exec[p].pc \in {"train", "insert", "loop", "finalize"}
            => \E r \in ExecRows(p) : model_updates[r].status = "running"

\* C9: every wish has at most one primary assignment, and its topic_id is
\* null or the topic of that assignment
PrimaryOf(i) == {a \in topic_wishes : a.wish_id = i /\ a.is_primary}

C9_PrimaryUnique ==
    \A i \in DOMAIN wishes :
        /\ Cardinality(PrimaryOf(i)) <= 1
        /\ wishes[i].topic_id # NULL
              => \E a \in PrimaryOf(i) : a.topic_id = wishes[i].topic_id

\* C10: right after a run settles to 'completed', every topic's wish_count
\* is the number of primary assignments of that topic
CountsMatch ==
    \A t \in topics :
        t.wish_count =
            Cardinality({a \in topic_wishes : a.topic_id = t.id /\ a.is_primary})

C11_AssignedOnce ==
    [][\A i \in DOMAIN wishes :
        wishes[i].topic_id # NULL
            => /\ wishes'[i].topic_id = wishes[i].topic_id
               /\ {a \in topic_wishes' : a.wish_id = i}
                    = {a \in topic_wishes : a.wish_id = i}]_vars

\* C12: a row that is 'completed' or 'failed' keeps its status in every step
Terminal == {"completed", "failed"}

C12_TerminalStatus ==
    [][\A r \in DOMAIN model_updates :
        model_updates[r].status \in Terminal
            => model_updates'[r].status = model_updates[r].status]_vars

\* C13: when no request and no job is in flight, no row is 'running': every
\* row inserted as 'running' was settled by the execution it belongs to
Quiescent == \A p \in Procs : exec[p].pc = "idle"

C13_RunsSettle == Quiescent => RunningRuns = {}

\* p settles its run to 'completed' in this step
Completes(p) ==
    /\ exec[p].pc = "finalize"
    /\ exec'[p].pc = "idle"
    /\ model_updates'[exec[p].model_update].status = "completed"

\* the wishes p fetched that train_model labelled as outliers
OutliersOf(p) ==
    {exec[p].wish_ids[i] : i \in TopicIndices(exec[p].labels, Outlier)}

\* the wishes that were not in the fetch of p
NotFetched(p) == DOMAIN wishes \ Range(exec[p].wish_ids)

C15_CompletedCounts ==
    [][\A p \in Procs :
        (exec[p].pc = "finalize" /\ exec'[p].pc = "idle")
            => LET r == exec[p].model_update
                   row == model_updates'[r]
               IN /\ row.status = "completed"
                  /\ row.completed_at
                  /\ row.topics_created =
                        Cardinality({exec[p].labels[i] : i \in DOMAIN exec[p].labels}
                                        \ {Outlier})
                  /\ row.topics_created =
                        Cardinality({t \in topics' : t.topic_model_id = r})]_vars

\* a completed run with a topic, an outlier among the wishes it counted
C15_Witness ==
    \E r \in DOMAIN model_updates :
        /\ model_updates[r].status = "completed"
        /\ model_updates[r].completed_at
        /\ model_updates[r].topics_created = 1
        /\ Cardinality({t \in topics : t.topic_model_id = r}) = 1
        /\ \E t \in topics :
            t.topic_model_id = r /\ t.wish_count < model_updates[r].wishes_count

\* C16: a 'running' row has topics_created 0 and no completed_at; a
\* 'completed' row has completed_at set
C16_RowShape ==
    \A r \in DOMAIN model_updates :
        /\ model_updates[r].status = "running"
              => model_updates[r].topics_created = 0 /\ ~model_updates[r].completed_at
        /\ model_updates[r].status = "completed" => model_updates[r].completed_at

\* C17: no two rows have the same version, and versions increase with the
\* order of insertion
C17_VersionsIncrease ==
    \A r1, r2 \in DOMAIN model_updates :
        r1 < r2 => model_updates[r1].version < model_updates[r2].version

\* C18: the commit of a run leaves every wish it labelled as an outlier as it
\* was, adds no assignment for it, and counts in the wish_count of its topics
\* only the wishes it put in a cluster
C18_OutliersUntouched ==
    [][\A p \in Procs :
        (exec[p].pc = "loop" /\ exec'[p].pc = "finalize")
            => /\ \A w \in OutliersOf(p) :
                    /\ wishes'[w] = wishes[w]
                    /\ {a \in topic_wishes' : a.wish_id = w}
                         = {a \in topic_wishes : a.wish_id = w}
               /\ \A t \in topics' \ topics :
                    t.wish_count =
                        Cardinality({w \in Range(exec[p].wish_ids) \ OutliersOf(p) :
                            \E a \in topic_wishes' :
                                a.topic_id = t.id /\ a.wish_id = w})]_vars

\* a run has committed a topic and left its outlier eligible
C18_Witness ==
    \E p \in Procs :
        /\ exec[p].pc = "finalize"
        /\ OutliersOf(p) # {}
        /\ \E t \in topics : t.topic_model_id = exec[p].model_update
        /\ \A w \in OutliersOf(p) : w \in EligibleIds

\* a step of reset_stuck_training that found a row to reset: the only step
\* that changes model_updates and no execution
ResetStep == model_updates' # model_updates /\ exec' = exec

\* the rows whose status a step moved from 'running' to 'failed'
Transitioned ==
    {r \in DOMAIN model_updates :
        /\ model_updates[r].status = "running"
        /\ model_updates'[r].status = "failed"}

\* C19 as stated: reset_stuck_training, called with runs on record, reports
\* a reset count that is the number of rows that are 'running'
C19_ReportsCount ==
    model_updates # << >>
        => /\ "reset_count" \in DOMAIN ResetResponse
           /\ ResetResponse.reset_count = Cardinality(RunningRuns)

\* C19: reset_stuck_training moves every row that was 'running' to 'failed',
\* none of them is 'running' afterwards, and when it moved a row its answer
\* has a reset_count that is the number of rows it moved; when no row is
\* 'running' its answer has no reset_count
C19_ResetAll ==
    /\ [](RunningRuns = {} => "reset_count" \notin DOMAIN ResetResponse)
    /\ [][ResetStep
            => /\ Transitioned = RunningRuns
               /\ Transitioned # {}
               /\ "reset_count" \in DOMAIN ResetResponse
               /\ ResetResponse.reset_count = Cardinality(Transitioned)
               /\ \A r \in RunningRuns : model_updates'[r].status # "running"]_vars

\* both rows of a manual run were reset while its execution is in the loop
C19_Witness ==
    \E p \in Manual :
        /\ exec[p].pc = "loop"
        /\ exec[p].returned # exec[p].model_update
        /\ \A r \in ExecRows(p) : model_updates[r].status = "failed"

\* C20: reset_stuck_training changes nothing but the status of the rows that
\* were 'running': wishes, topics, assignments and the rows that were
\* 'completed' or 'failed' stay as they were
C20_ResetFrame ==
    [][ResetStep
        => /\ wishes' = wishes
           /\ topics' = topics
           /\ topic_wishes' = topic_wishes
           /\ rejected_wishes' = rejected_wishes
           /\ DOMAIN model_updates' = DOMAIN model_updates
           /\ \A r \in DOMAIN model_updates :
                IF model_updates[r].status = "running"
                THEN model_updates'[r] = [model_updates[r] EXCEPT !.status = "failed"]
                ELSE model_updates'[r] = model_updates[r]]_vars

\* the row trigger_training returned was reset beside a completed run and
\* its topic
C20_Witness ==
    /\ \E r \in DOMAIN model_updates : model_updates[r].status = "completed"
    /\ topics # {}
    /\ \E p \in Manual :
        /\ exec[p].pc = "fetch"
        /\ model_updates[exec[p].returned].status = "failed"

\* C21: a submission the moderation rejects adds no wish and exactly one
\* rejected_wishes row, with the submitted content and the reason of the
\* moderation, and the caller gets the 400 with that reason
C21_RejectedIsLogged ==
    [][rejected_wishes' # rejected_wishes
        => /\ wishes' = wishes
           /\ \E c \in Contents, call \in ModerationCalls :
                LET m == should_reject_wish(call) IN
                /\ ~m.is_safe
                /\ rejected_wishes' = Append(rejected_wishes,
                        [content |-> c, rejection_reason |-> m.reason])
                /\ create_wish_response(m).status_code = 400
                /\ create_wish_response(m).detail = m.reason]_vars

\* a flagged submission is on record and no wish is
C21_Witness ==
    /\ wishes = << >>
    /\ \E r \in DOMAIN rejected_wishes :
        /\ rejected_wishes[r].content \in Contents
        /\ rejected_wishes[r].rejection_reason = "Content flagged for"

\* C22: when the moderation call raises, moderate_content rejects with a
\* reason; a step adds a wish only for a call that returned and did not flag,
\* and logs no rejection in that step
C22_FailsClosed ==
    /\ [](/\ ~moderate_content("raises").is_safe
          /\ moderate_content("raises").reason # "none")
    /\ [][Len(wishes') > Len(wishes)
            => /\ rejected_wishes' = rejected_wishes
               /\ \A call \in ModerationCalls :
                    should_reject_wish(call).is_safe => call = "clean"]_vars

\* a submission was rejected for a moderation error, another was accepted
C22_Witness ==
    /\ wishes # << >>
    /\ \E r \in DOMAIN rejected_wishes :
        rejected_wishes[r].rejection_reason = "Moderation service error"

\* the topics the step of p added to its pending rows
NewTopics(p) == exec'[p].new_topics \ exec[p].new_topics

C24_StartStopIdempotent ==
    [][scheduler' # scheduler
        => /\ \/ /\ scheduler'.handle = "running"
                    /\ scheduler.handle # "running"
                    /\ enableScheduler
              \/ /\ scheduler'.handle = "stopped"
                    /\ scheduler.handle = "running"
           /\ store' = store
           /\ exec' = exec]_vars

\* the scheduler was started and stopped, an execution of its job still in
\* flight: a further stop_scheduler finds no running scheduler
C24_Witness ==
    /\ scheduler.handle = "stopped"
    /\ enableScheduler
    /\ exec[Sched].pc = "loop"

\* C25: no step removes a wish or changes its content; the step that marks a
\* wish as deleted changes nothing else of that wish, no other wish, no
\* topic, no assignment and no run
C25_SoftDeleteOnly ==
    [][/\ Len(wishes') >= Len(wishes)
       /\ \A i \in DOMAIN wishes : wishes'[i].content = wishes[i].content
       /\ \A i \in DOMAIN wishes :
            (~wishes[i].is_deleted /\ wishes'[i].is_deleted)
                => /\ wishes' = [wishes EXCEPT ![i].is_deleted = TRUE]
                   /\ topics' = topics
                   /\ topic_wishes' = topic_wishes
                   /\ model_updates' = model_updates]_vars

\* a wish with a topic was deleted: it keeps its topic, its assignment, and
\* the topic keeps its wish_count
C25_Witness ==
    \E i \in DOMAIN wishes :
        /\ wishes[i].is_deleted
        /\ wishes[i].topic_id # NULL
        /\ \E a \in topic_wishes : a.wish_id = i /\ a.topic_id = wishes[i].topic_id
        /\ \E t \in topics : t.id = wishes[i].topic_id /\ t.wish_count >= 1

\* the topics that reference run r, and the assignments to those topics
TopicsOf(r) == {t \in topics : t.topic_model_id = r}

AssignmentsOf(r) ==
    {a \in topic_wishes : \E t \in TopicsOf(r) : t.id = a.topic_id}

\* C26: in every committed state no topic and no assignment belongs to a run
\* whose status is 'failed'
C26_NoRowsOfFailedRun ==
    \A r \in DOMAIN model_updates :
        model_updates[r].status = "failed"
            => TopicsOf(r) = {} /\ AssignmentsOf(r) = {}

\* C27: the row a manual execution inserts and settles is the row
\* trigger_training returned to the caller: the trigger and its background
\* task add one row
C27_OneRowPerTrigger ==
    \A p \in Manual :
        (exec[p].returned # 0 /\ exec[p].model_update # 0)
            => exec[p].model_update = exec[p].returned

\* C28: when a run settles to 'completed', every wish it fetched with a label
\* other than the outlier label has exactly one assignment to a topic of this
\* run, primary and to the topic the wish's topic_id names; and two wishes it
\* fetched have the same topic_id exactly when they have the same label
C28_AssignmentsMatchLabels ==
    [][\A p \in Procs :
        Completes(p)
            => LET e == exec[p]
                   mine(w) == {a \in topic_wishes' :
                                /\ a.wish_id = w
                                /\ \E t \in topics' :
                                     /\ t.id = a.topic_id
                                     /\ t.topic_model_id = e.model_update}
               IN /\ \A i \in DOMAIN e.labels :
                        e.labels[i] # Outlier
                            => /\ Cardinality(mine(e.wish_ids[i])) = 1
                               /\ \A a \in mine(e.wish_ids[i]) :
                                    /\ a.is_primary
                                    /\ a.topic_id = wishes'[e.wish_ids[i]].topic_id
                  /\ \A i, j \in DOMAIN e.labels :
                        (wishes'[e.wish_ids[i]].topic_id
                            = wishes'[e.wish_ids[j]].topic_id)
                          <=> e.labels[i] = e.labels[j]]_vars

\* train_model labelled every document p fetched as an outlier
AllOutliers(p) ==
    /\ exec[p].labels # << >>
    /\ \A i \in DOMAIN exec[p].labels : exec[p].labels[i] = Outlier

\* C29: a run whose documents are all outliers inserts its row with
\* topics_created 0 and nothing to iterate over, its commit changes no wish,
\* no topic and no assignment, and when it settles to 'completed' the row
\* has topics_created 0 and no topic references it
C29_AllOutliersRun ==
    [][\A p \in Procs :
        AllOutliers(p)
            => /\ (exec[p].pc = "insert" /\ exec'[p].pc = "loop")
                    => /\ model_updates'[exec'[p].model_update].topics_created = 0
                       /\ exec'[p].todo = {}
               /\ (exec[p].pc = "loop" /\ exec'[p].pc = "finalize")
                    => /\ wishes' = wishes
                       /\ topics' = topics
                       /\ topic_wishes' = topic_wishes
               /\ (exec[p].pc = "finalize" /\ exec'[p].pc = "idle")
                    => /\ model_updates'[exec[p].model_update].status = "completed"
                       /\ model_updates'[exec[p].model_update].topics_created = 0
                       /\ \A t \in topics' : t.topic_model_id # exec[p].model_update
                       /\ wishes' = wishes]_vars

\* a run over every wish has completed without a topic, and the wishes are
\* all still eligible
C29_Witness ==
    /\ topics = {}
    /\ wishes # << >>
    /\ EligibleIds = DOMAIN wishes
    /\ \E r \in DOMAIN model_updates :
        /\ model_updates[r].status = "completed"
        /\ model_updates[r].topics_created = 0
        /\ model_updates[r].wishes_count = Len(wishes)

\* C30: while an execution clusters and persists, the wishes_count of each
\* of its rows is the number of wishes it fetched
C30_WishesCountIsFetched ==
    \A p \in Procs :
        exec[p].pc \in {"train", "insert", "loop", "finalize"}
            => \A r \in ExecRows(p) :
                    model_updates[r].wishes_count = Len(exec[p].wish_ids)

\* the positions of a thread inside process_unassigned_wishes
InCall == {"fetch"} \cup InPipeline

\* C31: process_unassigned_wishes never lets an exception out: wherever the
\* failure happens (the fetch, the clustering, the commits, the failure
\* handler itself) the call returns to its caller, and its session is open
\* during the call and closed when it has returned
C31_NeverPropagates ==
    [][\A p \in Procs :
        exec[p].pc \in InCall
            => /\ exec[p].db = "open"
               /\ exec'[p].pc \in InCall \cup {"idle", "declined"}
               /\ exec'[p].pc \notin InCall => exec'[p].db = "closed"]_vars

\* every call has returned, and one of them failed inside its failure
\* handler: the row it inserted is still 'running'
C31_Witness ==
    /\ Quiescent
    /\ \A p \in Procs : exec[p].db = "closed"
    /\ \E r \in DOMAIN model_updates :
        /\ model_updates[r].status = "running"
        /\ model_updates[r].topics_created >= 1

\* C32: whatever start_scheduler and stop_scheduler calls were made, at most
\* one scheduler instance is running, the running one is the one the global
\* refers to and holds the job 'batch_update' and no other; with
\* ENABLE_SCHEDULER false none is ever running; and a start_scheduler call
\* that finds a stopped scheduler leaves exactly one running
C32_OneSchedulerOneJob ==
    /\ [](/\ scheduler.live <= 1
          /\ scheduler.live = 1 <=> scheduler.handle = "running"
          /\ scheduler.handle = "running" => scheduler.jobs = <<"batch_update">>
          /\ ~enableScheduler => scheduler.handle = "none" /\ scheduler.live = 0)
    /\ [][(start_scheduler /\ scheduler.handle = "stopped")
            => /\ scheduler'.handle = "running"
               /\ scheduler'.live = 1
               /\ scheduler'.jobs = <<"batch_update">>]_vars

\* a scheduler was started and shut down: no instance runs, and the next
\* start_scheduler call is a start after a stop
C32_Witness ==
    /\ enableScheduler
    /\ scheduler = [handle |-> "stopped", live |-> 0,
                    jobs |-> <<"batch_update">>]

\* C33: the step of an accepted submission appends one wish, with the
\* submitted content, no topic and not deleted, and logs no rejection; and
\* neither that step nor the step of a rejected submission changes a wish
\* already stored, a topic, an assignment or a run
C33_CreateWishFrame ==
    [][/\ Len(wishes') > Len(wishes)
            => /\ Len(wishes') = Len(wishes) + 1
               /\ \A i \in DOMAIN wishes : wishes'[i] = wishes[i]
               /\ wishes'[Len(wishes')].content \in Contents
               /\ wishes'[Len(wishes')].topic_id = NULL
               /\ ~wishes'[Len(wishes')].is_deleted
               /\ rejected_wishes' = rejected_wishes
               /\ topics' = topics
               /\ topic_wishes' = topic_wishes
               /\ model_updates' = model_updates
       /\ rejected_wishes' # rejected_wishes
            => /\ wishes' = wishes
               /\ topics' = topics
               /\ topic_wishes' = topic_wishes
               /\ model_updates' = model_updates]_vars

\* a wish accepted after a run assigned the two before it: it has no topic,
\* no run has fetched it, and the earlier wishes keep their topic
C33_Witness ==
    /\ Len(wishes) = 3
    /\ rejected_wishes = << >>
    /\ model_updates # << >>
    /\ \A r \in DOMAIN model_updates : model_updates[r].wishes_count = 2
    /\ wishes[1].topic_id # NULL
    /\ wishes[2].topic_id # NULL
    /\ wishes[3].topic_id = NULL
    /\ ~wishes[3].is_deleted
    /\ \E a \in topic_wishes : a.wish_id = 1

\* the documents the clustering put in the cluster of the latest
\* generate_topic_label call of p: positions in the fetched list
ClusterOf(p) ==
    {i \in DOMAIN exec[p].labels : exec[p].labels[i] = exec[p].label_call.topic_id}

\* C34: generate_topic_label is called with at most TopNWords keywords and
\* with min(SampleDocsCap, size of the cluster) sample documents, each the
\* content of a fetched wish of that cluster, in the order of the fetch
C34_LabelCallArguments ==
    \A p \in Procs :
        exec[p].label_call.called
            => LET call == exec[p].label_call
                   size == Cardinality(ClusterOf(p))
                   n == IF size < SampleDocsCap THEN size ELSE SampleDocsCap
               IN /\ Len(call.top_words) <= TopNWords
                  /\ Len(call.sample_docs) = n
                  /\ \E f \in [1..n -> ClusterOf(p)] :
                        /\ \A j, k \in 1..n : j < k => f[j] < f[k]
                        /\ \A k \in 1..n :
                            call.sample_docs[k]
                                = wishes[exec[p].wish_ids[f[k]]].content

\* a cluster of more wishes than the cap of sample documents, which leaves
\* out the first fetched wish, of another content than the second: the call
\* got as many keywords and documents as it may
C34_Witness ==
    \E p \in Procs :
        /\ exec[p].label_call.called
        /\ Cardinality(ClusterOf(p)) > SampleDocsCap
        /\ 1 \notin ClusterOf(p)
        /\ exec[p].documents[1] # exec[p].documents[2]
        /\ Len(exec[p].label_call.sample_docs) = SampleDocsCap
        /\ Len(exec[p].label_call.top_words) = TopNWords

=============================================================================
